---- MODULE Spec2Model ----
(***************************************************************************)
(* Model of the vision-guided GitHub release navigator:                    *)
(*   agent/graph.py   the observe/decide/act/validate/extract graph and    *)
(*                    the grid-exploration click sweep                     *)
(*   agent/state.py   AgentState and its bounded history buffers           *)
(*   tools/validator.py  Validator.assess (stuck detection, stage rules)   *)
(*   tools/vision.py  Action schema and _normalize_action_payload          *)
(*   utils/bbox_guards.py  bbox_in_valid_column                            *)
(*                                                                         *)
(* Python None is the string "none" for scalar fields and the empty        *)
(* sequence for an absent bbox / list (both are falsy in the code).        *)
(***************************************************************************)
EXTENDS Integers, Sequences, FiniteSets, TLC

(***************************************************************************)
(* Bounds of the model (run parameters and input alphabets).               *)
(***************************************************************************)
\* AgentState.max_steps of the modelled run (--max-steps)
MaxSteps == 3
\* AgentState.max_retries_per_stage of the modelled run (--max-retries)
MaxRetries == 1
\* number of push_url / push_hash calls of the history-buffer harness
MaxPush == 8
\* largest number of inner lists / candidates in a modelled payload
MaxCands == 2

(***************************************************************************)
(* Program constants.                                                      *)
(***************************************************************************)
max_keep == 6
repeat_threshold == 3
ViewportW == 1280
ViewportH == 720
LeftMargin == 220
MinRegion == 20
MinSide == 5
MaxRefine == 2
DefaultScroll == 400

Min(a, b) == IF a < b THEN a ELSE b
Max(a, b) == IF a > b THEN a ELSE b

(***************************************************************************)
(* Stage enum and URLs.  A URL is represented by the class of page it      *)
(* names; the substring tests of the code are the predicates below.        *)
(***************************************************************************)
Stages == {"HOME", "SEARCH_RESULTS", "REPO", "RELEASES", "EXTRACTED", "DONE"}

\* home     https://github.com
\* search   https://github.com/search?q=openclaw%2Fopenclaw
\* repo     https://github.com/openclaw/openclaw
\* releases https://github.com/openclaw/openclaw/releases
\* login    https://github.com/login
Urls == {"home", "search", "repo", "releases", "login"}

\* "/search" in url
url_has_search_path(u) == u = "search"
\* "github.com/search" in url
url_has_github_search(u) == u = "search"
\* state.target_repo.lower() in url.lower()
url_has_target_repo(u) == u \in {"repo", "releases"}
\* "/releases" in url
url_has_releases(u) == u = "releases"
\* variant: no URL is taken for a login page
url_has_login_never(u) == FALSE

\* "/login" in url
url_has_login(u) == u = "login"

\* perceptual hashes of the screenshots the browser can render
Hashes == {"h1", "h2"}
\* the order in which the names are handed out
hash_order(h) == IF h = "h1" THEN 1 ELSE 2

(***************************************************************************)
(* bbox_in_valid_column.  The code compares the float centre              *)
(* (x1 + x2) / 2.0 with img_w * 0.16, img_w * 0.82 and img_h * 0.10.  The  *)
(* comparisons are exact on integers except where the double product       *)
(* img_w * 0.82 falls just below the real product (widths in               *)
(* RightFracShort, computed for 1..2000): there a centre exactly on the    *)
(* right bound is rejected.                                                *)
(***************************************************************************)
RightFracShort == {75, 150, 300, 600, 1175, 1200, 1225}

\* variant: the header band is not checked
bbox_in_valid_column_no_header(bbox, img_w, img_h) ==
    LET x1 == bbox[1]
        y1 == bbox[2]
        x2 == bbox[3]
        y2 == bbox[4]
    IN  IF x2 <= x1 \/ y2 <= y1 THEN FALSE
        ELSE IF (x2 - x1) < MinSide \/ (y2 - y1) < MinSide THEN FALSE
        ELSE IF 25 * (x1 + x2) < 8 * img_w THEN FALSE
        ELSE IF 25 * (x1 + x2) > 41 * img_w THEN FALSE
        ELSE TRUE

bbox_in_valid_column(bbox, img_w, img_h) ==
    LET x1 == bbox[1]
        y1 == bbox[2]
        x2 == bbox[3]
        y2 == bbox[4]
    IN  IF x2 <= x1 \/ y2 <= y1 THEN FALSE
        ELSE IF (x2 - x1) < MinSide \/ (y2 - y1) < MinSide THEN FALSE
        ELSE IF 5 * (y1 + y2) < img_h THEN FALSE
        ELSE IF 25 * (x1 + x2) < 8 * img_w THEN FALSE
        ELSE IF 25 * (x1 + x2) > 41 * img_w THEN FALSE
        ELSE IF img_w \in RightFracShort /\ 25 * (x1 + x2) = 41 * img_w THEN FALSE
        ELSE TRUE

(***************************************************************************)
(* Grid exploration helpers.                                               *)
(***************************************************************************)
_clamp_bbox_to_viewport(bbox, w, h) ==
    << Max(LeftMargin, Min(bbox[1], w)),
       Max(0, Min(bbox[2], h)),
       Max(LeftMargin, Min(bbox[3], w)),
       Max(0, Min(bbox[4], h)) >>

\* widths w in 1..1399 where the double 0.70 * w truncates to 7w/10 - 1
ShrinkShort == {90, 170, 180, 330, 340, 350, 360, 650, 660, 670, 680, 690,
                700, 710, 720, 730, 1290, 1300, 1310, 1320, 1330, 1340,
                1350, 1360, 1370, 1380, 1390}

\* int(0.70 * w)
ScaleLen(w) == IF w \in ShrinkShort THEN (7 * w) \div 10 - 1 ELSE (7 * w) \div 10

\* variant: the next round samples the same region again
_shrink_top_left_none(bbox) == bbox

_shrink_top_left(bbox) ==
    LET w == Max(1, bbox[3] - bbox[1])
        h == Max(1, bbox[4] - bbox[2])
    IN  << bbox[1], bbox[2], bbox[1] + ScaleLen(w), bbox[2] + ScaleLen(h) >>

\* int(((i + 1) / (n + 1)) * w) agrees with the integer quotient for
\* n in {2, 3, 5} and w in 1..1399
_grid_points(x1, y1, x2, y2, xs, ys) ==
    LET w == Max(1, x2 - x1)
        h == Max(1, y2 - y1)
        pt(k) == LET iy == (k - 1) \div xs
                     ix == (k - 1) % xs
                 IN  << Min(Max(x1 + ((ix + 1) * w) \div (xs + 1), x1 + 4), x2 - 4),
                        Min(Max(y1 + ((iy + 1) * h) \div (ys + 1), y1 + 4), y2 - 4) >>
    IN  [k \in 1..Min(xs * ys, 10) |-> pt(k)]

\* variant: strict comparisons in the guard
region_too_small_strict(r) == r[3] < r[1] + MinRegion \/ r[4] < r[2] + MinRegion

\* the guard of _explore_click_points_multi on the clamped region
region_too_small(r) == r[3] <= r[1] + MinRegion \/ r[4] <= r[2] + MinRegion

\* the click points of rounds A, B, C in click order
explore_points(r) ==
    LET b == _shrink_top_left(r)
        c == _shrink_top_left(b)
    IN  _grid_points(r[1], r[2], r[3], r[4], 3, 2)
          \o _grid_points(b[1], b[2], b[3], b[4], 5, 2)
          \o _grid_points(c[1], c[2], c[3], c[4], 5, 2)

(***************************************************************************)
(* Actions (tools/vision.py Action) as the graph uses them: the type, the  *)
(* reason, the primary bbox, the candidate bboxes and the scroll           *)
(* direction.                                                              *)
(***************************************************************************)
MkAction(t, r, b, cs, sc) ==
    [type |-> t, reason |-> r, bbox |-> b, candidates |-> cs, scroll |-> sc]

\* state.last_action is None until the first DECIDE
NoAction == MkAction("none", "none", <<>>, <<>>, "none")

\* a result card in the central column
CardBox == <<400, 300, 800, 420>>
\* a box in the page header (top 10% of the screenshot)
HeaderBox == <<400, 10, 800, 60>>
\* a tight link box, 18 x 18 pixels, in the central column
LinkBox == <<600, 300, 618, 318>>

BBoxes == {CardBox, HeaderBox, LinkBox}

\* the actions vision.get_action returns in the modelled runs
VisionActions ==
    {MkAction("click", "vlm", b, <<>>, "none") : b \in BBoxes}
      \cup {MkAction("click", "vlm", <<>>, cs, "none") :
              cs \in {<<HeaderBox>>, <<HeaderBox, CardBox>>, <<CardBox, HeaderBox>>}}
      \cup {MkAction("click_candidates", "vlm", CardBox, <<HeaderBox, CardBox>>, "none"),
            MkAction("scroll", "vlm", <<>>, <<>>, "down"),
            MkAction("back", "vlm", <<>>, <<>>, "none")}

VARIABLES
    node,                    \* the node the graph runs next (state.next_node)
    stage,
    current_url,
    last_png_bytes,          \* the stored screenshot, named by its hash
    step_count,
    retry_count,
    refine_level,
    last_urls,
    last_screenshot_hashes,
    last_action,
    pending_candidates,      \* the bbox of each queued candidate
    extracted_release,
    max_steps,
    max_retries_per_stage,
    page_url,                \* browser.page.url
    browser_ops,             \* what the last ACT sent to the browser
    extract_calls,           \* number of extractor.extract calls so far
    vision_prompt            \* the prompt of the last DECIDE's get_action call

\* the run parameters: set by the command line, never written by a node
run_params == << max_steps, max_retries_per_stage >>

agent_vars == << node, stage, current_url, last_png_bytes, step_count, retry_count,
                 refine_level, last_urls, last_screenshot_hashes, last_action,
                 pending_candidates, extracted_release, run_params, page_url,
                 browser_ops, extract_calls, vision_prompt >>

VARIABLES
    pushed_urls,             \* every URL handed to push_url so far, in order
    pushed_hashes,           \* every hash handed to push_hash so far, in order
    col_in,                  \* the bbox and image size given to bbox_in_valid_column
    col_out,                 \* its verdict
    ex_pc,                   \* position in _explore_click_points_multi
    ex_bbox,                 \* the bbox it was called with
    ex_clicked,              \* the points passed to browser.click_point, in order
    ex_result,               \* its return value
    payload,                 \* the JSON payload the vision model returned
    call_out,                \* the outcome of _call_action on it
    ex_before,               \* the page URL _explore_click_points_multi was entered on
    assess_out               \* the ValidationResult of Validator.assess

harness_vars == << pushed_urls, pushed_hashes, col_in, col_out, ex_pc, ex_bbox,
                   ex_clicked, ex_result, payload, call_out, ex_before, assess_out >>

\* step_count only ever meets max_steps in ">=": values above StepCap behave
\* as StepCap does, so the counter saturates there
StepCap == max_steps + 1
IncStep(n) == Min(n + 1, StepCap)
NoOps == [op |-> "none", bbox |-> <<>>]

\* the state navigate.py builds for --max-steps ms and --max-retries mr,
\* the browser started on --url url
AgentOn(ms, mr, url) ==
    /\ max_steps = ms
    /\ max_retries_per_stage = mr
    /\ extract_calls = 0
    /\ node = "observe"
    /\ stage = "HOME"
    /\ current_url = "none"
    /\ last_png_bytes = "none"
    /\ step_count = 0
    /\ retry_count = 0
    /\ refine_level = 0
    /\ last_urls = <<>>
    /\ last_screenshot_hashes = <<>>
    /\ last_action = NoAction
    /\ pending_candidates = <<>>
    /\ extracted_release = "none"
    /\ page_url = url
    /\ browser_ops = NoOps
    /\ vision_prompt = "none"

\* --url has the default https://github.com
AgentStart(ms, mr) == AgentOn(ms, mr, "home")

AgentInit == AgentStart(MaxSteps, MaxRetries)

(***************************************************************************)
(* observe_node: snapshot of the page; the rendering picks the screenshot. *)
(***************************************************************************)
\* the hashes the run has met: the stored screenshot and the hash window
seen_hashes ==
    {last_png_bytes} \cup {last_screenshot_hashes[i] : i \in 1..Len(last_screenshot_hashes)}

\* the hash names a new screenshot can get.  A hash is only ever compared
\* for equality, so a rendering that was not met yet takes the first name
\* not met yet: naming it otherwise gives the same run up to the names.
next_hashes(screens) ==
    {h \in screens : h \in seen_hashes
                       \/ \A g \in screens \ seen_hashes : hash_order(h) <= hash_order(g)}

observe(screens) ==
    /\ node = "observe"
    /\ UNCHANGED << harness_vars, run_params, extract_calls, vision_prompt >>
    /\ \E png \in next_hashes(screens) : last_png_bytes' = png
    /\ current_url' = page_url
    /\ node' = "decide"
    /\ UNCHANGED << stage, step_count, retry_count, refine_level, last_urls,
                    last_screenshot_hashes, last_action, pending_candidates,
                    extracted_release, page_url, browser_ops >>

(***************************************************************************)
(* decide_node.  vision.get_action either returns an Action or raises      *)
(* RuntimeError, which graph.invoke does not catch: the run aborts.        *)
(***************************************************************************)
decide_stage(st, url) ==
    IF url # "none" /\ url_has_search_path(url) THEN "SEARCH_RESULTS" ELSE st

decide_uses_pending(st, pend) == pend # <<>> /\ st = "SEARCH_RESULTS"

\* variant: the correction hint is added from the second retry on
decide_prompt_late(retries) == IF retries > 1 THEN "critique" ELSE "plain"

\* the prompt get_action is called with: the critique prompt after a retry
decide_prompt(retries) == IF retries > 0 THEN "critique" ELSE "plain"

decide(answers) ==
    /\ node = "decide"
    /\ UNCHANGED << harness_vars, run_params, extract_calls >>
    /\ LET st == decide_stage(stage, current_url)
       IN  /\ stage' = st
           /\ IF decide_uses_pending(st, pending_candidates)
              THEN /\ last_action' = MkAction("click", "pending_candidate",
                                              Head(pending_candidates), <<>>, "none")
                   /\ vision_prompt' = "none"
                   /\ node' = "act"
              ELSE /\ vision_prompt' = decide_prompt(retry_count)
                   /\ \E a \in answers \cup {NoAction} :
                        IF a = NoAction
                        THEN /\ node' = "error"
                             /\ UNCHANGED last_action
                        ELSE /\ last_action' = a
                             /\ node' = "act"
    /\ UNCHANGED << current_url, last_png_bytes, step_count, retry_count, refine_level,
                    last_urls, last_screenshot_hashes, pending_candidates,
                    extracted_release, page_url, browser_ops >>

(***************************************************************************)
(* act_node.                                                               *)
(***************************************************************************)
\* _explore_click_points_multi as ACT sees it: the result, whether any
\* click_point was sent, and the page URL it leaves behind.  It succeeds
\* when some click changed the URL to one containing the target path; it
\* fails after all rounds, and then the page is where it was or on a URL
\* without the target path (the last URL change never led to the target).
explore_outcomes(bbox, before, pages) ==
    IF region_too_small(_clamp_bbox_to_viewport(bbox, ViewportW, ViewportH))
    THEN {[success |-> FALSE, clicked |-> FALSE, url |-> before]}
    ELSE {[success |-> TRUE, clicked |-> TRUE, url |-> u] :
             u \in {v \in pages : url_has_target_repo(v)}}
           \cup {[success |-> FALSE, clicked |-> TRUE, url |-> u] :
                   u \in {v \in pages \cup {before} : v = before \/ ~url_has_target_repo(v)}}

\* the candidate list ACT builds: action.candidates, then the primary bbox
act_candidates(a) ==
    a.candidates \o (IF a.bbox # <<>> THEN <<a.bbox>> ELSE <<>>)

\* index of the first candidate in the valid column, 0 if there is none
first_in_column(cands) ==
    LET ok == {i \in 1..Len(cands) : bbox_in_valid_column(cands[i], ViewportW, ViewportH)}
    IN  IF ok = {} THEN 0 ELSE CHOOSE i \in ok : \A j \in ok : i <= j

\* remaining = [c for c in candidates if c["bbox"] != chosen]
RECURSIVE remaining_candidates(_, _)
remaining_candidates(cands, chosen) ==
    IF cands = <<>> THEN <<>>
    ELSE IF Head(cands) # chosen
         THEN <<Head(cands)>> \o remaining_candidates(Tail(cands), chosen)
         ELSE remaining_candidates(Tail(cands), chosen)

\* the browser call _execute_action makes for an action
execute_op(a) ==
    IF a.type = "click" /\ a.bbox # <<>> THEN [op |-> "click_bbox", bbox |-> a.bbox]
    ELSE IF a.type = "type" THEN [op |-> "type", bbox |-> a.bbox]
    ELSE IF a.type = "scroll" /\ a.scroll # "none" THEN [op |-> "scroll", bbox |-> <<>>]
    ELSE IF a.type = "back" THEN [op |-> "back", bbox |-> <<>>]
    ELSE IF a.type = "wait" THEN [op |-> "wait", bbox |-> <<>>]
    ELSE NoOps

\* the URLs the page can show after a browser call: a click, typed text
\* or back may navigate anywhere, the other calls leave the URL alone
urls_after(ops, before, pages) ==
    IF ops.op \in {"click_bbox", "type", "back"} THEN pages ELSE {before}

\* the filter is consulted: SEARCH_RESULTS, a screenshot, candidates and a
\* click / click_candidates action that did not take the exploration branch
act_filters(st, a, png) ==
    /\ st = "SEARCH_RESULTS"
    /\ png # "none"
    /\ act_candidates(a) # <<>>
    /\ a.type \in {"click", "click_candidates"}

act_explores(st, a) == st = "SEARCH_RESULTS" /\ a.type = "click" /\ a.bbox # <<>>

\* variant: ACT goes on to VALIDATE whatever retry_count is
act_end_routes_on == {"validate"}

\* ACT returning next_node = END: the edge map of "act" has the single key
\* "validate", so the graph library either ends the run there or raises on
\* the unmapped key
act_end_routes == {"END", "error"}

act(pages) ==
    /\ node = "act"
    /\ UNCHANGED << harness_vars, run_params, extract_calls, vision_prompt >>
    /\ LET action == IF last_action = NoAction
                     THEN MkAction("noop", "missing", <<>>, <<>>, "none")
                     ELSE last_action
           cands == act_candidates(action)
           k == first_in_column(cands)
       IN  IF act_explores(stage, action)
           THEN \E o \in explore_outcomes(action.bbox, page_url, pages) :
                  /\ stage' = IF o.success THEN "REPO" ELSE stage
                  /\ step_count' = IncStep(step_count)
                  /\ node' = "validate"
                  /\ page_url' = o.url
                  /\ browser_ops' = IF o.clicked
                                    THEN [op |-> "click_point", bbox |-> action.bbox]
                                    ELSE NoOps
                  /\ UNCHANGED << retry_count, pending_candidates >>
           ELSE IF act_filters(stage, action, last_png_bytes) /\ k = 0
           THEN /\ retry_count' = retry_count + 1
                /\ IF retry_count + 1 > max_retries_per_stage
                   THEN stage' = "DONE" /\ node' \in act_end_routes
                   ELSE stage' = stage /\ node' = "validate"
                /\ browser_ops' = NoOps
                /\ UNCHANGED << step_count, pending_candidates, page_url >>
           ELSE LET filtered == act_filters(stage, action, last_png_bytes)
                    final == IF filtered
                             THEN [action EXCEPT !.bbox = cands[k], !.type = "click"]
                             ELSE action
                IN  /\ pending_candidates' =
                          IF filtered THEN remaining_candidates(cands, cands[k])
                          ELSE pending_candidates
                    /\ browser_ops' = execute_op(final)
                    /\ page_url' \in urls_after(execute_op(final), page_url, pages)
                    /\ step_count' = IncStep(step_count)
                    /\ node' = "validate"
                    /\ UNCHANGED << stage, retry_count >>
    /\ UNCHANGED << current_url, last_png_bytes, refine_level, last_urls,
                    last_screenshot_hashes, last_action, extracted_release >>

(***************************************************************************)
(* AgentState.push_url / push_hash: append, then keep the last max_keep.   *)
(***************************************************************************)
\* variant: on overflow the first max_keep entries are kept
push_keep_oldest(hist, x) ==
    LET appended == Append(hist, x)
    IN  IF Len(appended) > max_keep THEN SubSeq(appended, 1, max_keep) ELSE appended

push(hist, x) ==
    LET appended == Append(hist, x)
    IN  IF Len(appended) > max_keep
        THEN SubSeq(appended, Len(appended) - max_keep + 1, Len(appended))
        ELSE appended

push_url(hist, url) == push(hist, url)
push_hash(hist, h) == push(hist, h)

\* list.count
Count(hist, x) == Cardinality({i \in 1..Len(hist) : hist[i] = x})

(***************************************************************************)
(* Validator.assess on the histories it has just extended.                 *)
(***************************************************************************)
ScrollDown == MkAction("scroll", "stuck_recovery_scroll_down", <<>>, <<>>, "down")
ScrollUp == MkAction("scroll", "stuck_recovery_scroll_up", <<>>, <<>>, "up")
GoBack == MkAction("back", "stuck_recovery_back", <<>>, <<>>, "none")

NoResult ==
    [new_stage |-> "none", recovery_action |-> NoAction,
     should_extract |-> FALSE, should_stop |-> FALSE]

\* variant: the repeated screenshot alone flags stuck
is_stuck_hash_only(hashes, urls, h, url) == Count(hashes, h) >= repeat_threshold

is_stuck(hashes, urls, h, url) ==
    LET repeated_hashes == Count(hashes, h)
        repeated_urls == IF url # "none" THEN Count(urls, url) ELSE 0
    IN  repeated_hashes >= repeat_threshold /\ repeated_urls >= repeat_threshold

\* variant: every recovery is a scroll down
recovery_for_fixed(retries) == ScrollDown

recovery_for(retries) ==
    IF retries % 3 = 0 THEN ScrollDown
    ELSE IF retries % 3 = 1 THEN ScrollUp
    ELSE GoBack

\* the URL heuristics: later rules overwrite new_stage
url_new_stage(st, url) ==
    LET s1 == IF url_has_github_search(url) /\ st = "HOME"
              THEN "SEARCH_RESULTS" ELSE "none"
        s2 == IF url_has_target_repo(url) /\ st \in {"SEARCH_RESULTS", "HOME"}
              THEN "REPO" ELSE s1
    IN  IF url_has_releases(url) /\ st \in {"REPO", "SEARCH_RESULTS"}
        THEN "RELEASES" ELSE s2

assess(st, url, steps, retries, hashes, urls, h) ==
    IF steps >= max_steps
    THEN [NoResult EXCEPT !.should_stop = TRUE]
    ELSE IF is_stuck(hashes, urls, h, url)
    THEN [NoResult EXCEPT !.recovery_action = recovery_for(retries)]
    ELSE IF url # "none"
    THEN [NoResult EXCEPT !.new_stage = url_new_stage(st, url),
                          !.should_extract =
                              (url_has_releases(url) /\ st \in {"REPO", "SEARCH_RESULTS"})]
    ELSE NoResult

(***************************************************************************)
(* validate_node.                                                          *)
(***************************************************************************)
\* variant: the URL the page shows after the action is appended
UrlsAtValidateFresh == push_url(last_urls, page_url)

\* the URL window VALIDATE assesses: state.current_url is appended
UrlsAtValidate ==
    IF current_url # "none" THEN push_url(last_urls, current_url) ELSE last_urls

\* variant: a new observation is taken before the recovery action runs
recovery_route_observe == "observe"

\* the node VALIDATE hands a substituted recovery action to
recovery_route == "act"

\* variant: after a stop VALIDATE loops to OBSERVE
stop_route_observe == "observe"

\* the node VALIDATE returns with stage DONE: state.next_node = END
stop_route == "END"

\* variant: VALIDATE never hands over to EXTRACT
extract_route_never(should_extract, st) == "observe"

\* the last routing of validate_node: EXTRACT when the result asks for it
\* and the stage is RELEASES, else OBSERVE
extract_route(should_extract, st) ==
    IF should_extract /\ st = "RELEASES" THEN "extract" ELSE "observe"

\* variant: the level grows without a cap
bump_refine_uncapped(level) == level + 1

\* state.refine_level = min(state.refine_level + 1, 2)
bump_refine(level) == Min(level + 1, MaxRefine)

validate_node ==
    /\ node = "validate"
    /\ UNCHANGED << harness_vars, run_params, extract_calls, vision_prompt >>
    /\ IF last_png_bytes = "none"
       THEN /\ node' = "observe"
            /\ UNCHANGED << stage, retry_count, refine_level, last_urls,
                            last_screenshot_hashes, last_action, pending_candidates >>
       ELSE
       LET hashes == push_hash(last_screenshot_hashes, last_png_bytes)
           urls == UrlsAtValidate
           result == assess(stage, current_url, step_count, retry_count,
                            hashes, urls, last_png_bytes)
           moved == result.new_stage # "none"
           st == IF moved THEN result.new_stage ELSE stage
           retries == IF moved THEN 0 ELSE retry_count
           refine == IF moved THEN 0 ELSE refine_level
           pend == IF moved THEN <<>> ELSE pending_candidates
       IN  /\ last_screenshot_hashes' = hashes
           /\ last_urls' = urls
           /\ IF current_url # "none" /\ url_has_login(current_url)
              THEN /\ node' = "observe"
                   /\ UNCHANGED << stage, retry_count, refine_level, last_action,
                                   pending_candidates >>
              ELSE IF result.should_stop
              THEN /\ stage' = "DONE"
                   /\ node' = stop_route
                   /\ retry_count' = retries
                   /\ refine_level' = refine
                   /\ pending_candidates' = pend
                   /\ UNCHANGED last_action
              ELSE IF result.recovery_action # NoAction
              THEN /\ retry_count' = retries + 1
                   /\ refine_level' = refine
                   /\ pending_candidates' = pend
                   /\ IF retries + 1 > max_retries_per_stage
                      THEN stage' = "DONE" /\ node' = stop_route /\ UNCHANGED last_action
                      ELSE /\ stage' = st
                           /\ last_action' = result.recovery_action
                           /\ node' = recovery_route
              ELSE IF /\ st = "SEARCH_RESULTS"
                      /\ last_action # NoAction
                      /\ last_action.type = "click"
                      /\ Len(urls) >= 2
                      /\ urls[Len(urls)] = urls[Len(urls) - 1]
              THEN IF pend # <<>>
                   THEN /\ pending_candidates' = Tail(pend)
                        /\ last_action' = MkAction("click", "next_candidate",
                                                   Head(pend), <<>>, "none")
                        /\ node' = "act"
                        /\ stage' = st
                        /\ retry_count' = retries
                        /\ refine_level' = refine
                   ELSE /\ refine_level' = bump_refine(refine)
                        /\ retry_count' = retries + 1
                        /\ node' = "observe"
                        /\ stage' = st
                        /\ pending_candidates' = pend
                        /\ UNCHANGED last_action
              ELSE /\ node' = extract_route(result.should_extract, st)
                   /\ stage' = st
                   /\ retry_count' = retries
                   /\ refine_level' = refine
                   /\ pending_candidates' = pend
                   /\ UNCHANGED last_action
    /\ UNCHANGED << current_url, last_png_bytes, step_count, extracted_release,
                    page_url, browser_ops >>

(***************************************************************************)
(* extract_node.  extractor.extract returns a ReleaseInfo or raises, as    *)
(* get_action does.                                                        *)
(***************************************************************************)
\* variant: the release is stored and the stage is left alone
extract_stage_kept(st) == st

\* the stage extract_node leaves after a successful extraction
extract_stage(st) == "EXTRACTED"

extract_node ==
    /\ node = "extract"
    /\ UNCHANGED << harness_vars, run_params, vision_prompt >>
    /\ IF last_png_bytes = "none"
       THEN node' = "observe" /\ UNCHANGED << stage, extracted_release, extract_calls >>
       ELSE /\ extract_calls' = extract_calls + 1
            /\ \E ok \in BOOLEAN :
                 IF ok
                 THEN /\ extracted_release' = "release"
                      /\ stage' = extract_stage(stage)
                      /\ node' = "END"
                 ELSE /\ node' = "error"
                      /\ UNCHANGED << stage, extracted_release >>
    /\ UNCHANGED << current_url, last_png_bytes, step_count, retry_count, refine_level,
                    last_urls, last_screenshot_hashes, last_action, pending_candidates,
                    page_url, browser_ops >>

vars == << agent_vars, harness_vars >>

(***************************************************************************)
(* JSON values of the vision model's payload.  Every value is a record     *)
(* [k, v]: k is the kind, v the content.                                   *)
(*   absent   the key is not in the object                                 *)
(*   null     None                                                         *)
(*   false    the boolean False                                            *)
(*   str      a string                                                     *)
(*   int      an integer;  float  a float, v counts tenths (25 is 2.5)     *)
(*   ints     a list of integers, v the sequence                           *)
(*   lists    a list of lists of integers, v the sequence of sequences     *)
(*   list     a list of candidate items (dicts or integer lists)           *)
(*   dict     an object, v a record of its keys                            *)
(***************************************************************************)
Absent == [k |-> "absent", v |-> 0]
Null == [k |-> "null", v |-> 0]
False == [k |-> "false", v |-> 0]
Str(x) == [k |-> "str", v |-> x]
IntV(n) == [k |-> "int", v |-> n]
FloatV(tenths) == [k |-> "float", v |-> tenths]
Ints(q) == [k |-> "ints", v |-> q]
Lists(qq) == [k |-> "lists", v |-> qq]
List(items) == [k |-> "list", v |-> items]
Dict(d) == [k |-> "dict", v |-> d]

\* a candidate object with its bbox and coords keys
Cand(bbox, coords) == Dict([bbox |-> bbox, coords |-> coords])
\* a scroll object
Scroll(direction, amount) == Dict([direction |-> direction, amount |-> amount])
\* an expect object
Expect(text) == Dict([page_contains_text |-> text])

\* a payload with its eight keys
MkPayload(t, r, c, b, cs, e, sc, ky) ==
    [type |-> t, reason |-> r, coords |-> c, bbox |-> b, candidates |-> cs,
     expect |-> e, scroll |-> sc, key |-> ky]

\* the empty object
EmptyPayload == MkPayload(Absent, Absent, Absent, Absent, Absent, Absent, Absent, Absent)

\* the harness variables while no harness runs
NoCol == [bbox |-> <<>>, img_w |-> 0, img_h |-> 0]
NoPayload == EmptyPayload
NoCall == [status |-> "unset", payload |-> NoPayload, action |-> NoAction]
NoAssess == [NoResult EXCEPT !.new_stage = "unset"]

HarnessIdle ==
    /\ pushed_urls = <<>>
    /\ pushed_hashes = <<>>
    /\ col_in = NoCol
    /\ col_out = "unset"
    /\ ex_pc = "idle"
    /\ ex_bbox = <<>>
    /\ ex_clicked = <<>>
    /\ ex_result = "unset"
    /\ payload = NoPayload
    /\ call_out = NoCall
    /\ ex_before = "none"
    /\ assess_out = NoAssess

Init == AgentInit /\ HarnessIdle

\* the nodes in the full environment
observe_node == observe(Hashes)
decide_node == decide(VisionActions)
act_node == act(Urls)

Next == observe_node \/ decide_node \/ act_node \/ validate_node \/ extract_node

Spec == Init /\ [][Next]_vars

(***************************************************************************)
(* The same graph in a narrower environment, for the properties of whole   *)
(* runs: one rendering of every page, four pages, four answers of the      *)
(* vision model.  Every behaviour of it is a behaviour of Spec.  The graph *)
(* always runs the node it has routed to, hence the weak fairness.         *)
(***************************************************************************)
LoopHashes == {"h1"}
LoopUrls == {"home", "search", "releases", "login"}
LoopActions ==
    {MkAction("click", "vlm", CardBox, <<>>, "none"),
     MkAction("click", "vlm", <<>>, <<HeaderBox>>, "none"),
     MkAction("click", "vlm", <<>>, <<HeaderBox, CardBox>>, "none"),
     MkAction("back", "vlm", <<>>, <<>>, "none")}

LoopNext ==
    \/ observe(LoopHashes)
    \/ decide(LoopActions)
    \/ act(LoopUrls)
    \/ validate_node
    \/ extract_node

FairSpec == Init /\ [][LoopNext]_vars /\ WF_vars(LoopNext)

TypeOK ==
    /\ node \in {"observe", "decide", "act", "validate", "extract", "END", "error"}
    /\ stage \in Stages
    /\ step_count \in 0..StepCap
    /\ retry_count \in 0..(max_retries_per_stage + max_steps + 2)
    /\ refine_level \in 0..MaxRefine
    /\ vision_prompt \in {"none", "plain", "critique"}
    /\ Len(last_urls) <= max_keep
    /\ Len(pending_candidates) <= 2

(***************************************************************************)
(* Claims about the run.                                                   *)
(***************************************************************************)
\* the run is over: the graph reached END, or an exception aborted it
Ended == node \in {"END", "error"}

\* C1: every run eventually ends; there is no infinite execution of the
\* observe / decide / act / validate loop.
C1_RunTerminates == <>Ended

\* C2: a VALIDATE that runs with step_count >= max_steps ends the run with
\* stage DONE and extracted_release unset, whatever the current URL is, and
\* step_count never exceeds max_steps.
C2_StepCeilingEndsRun ==
    [][ /\ (node = "validate" /\ step_count >= max_steps)
            => (node' = "END" /\ stage' = "DONE" /\ extracted_release' = "none")
        /\ step_count' <= max_steps ]_vars

\* C3: no node starts executing with retry_count above max_retries_per_stage:
\* a node that raises retry_count above the ceiling ends the run itself.
C3_RetryCeilingEndsRun == ~Ended => retry_count <= max_retries_per_stage

\* C4: a node sets retry_count to 0 if and only if it changes stage.  The
\* assignments of DONE that end the run are left aside: the formula is
\* about the stage changes of a run that goes on.
C4_RetryResetIffStageChange ==
    [][ /\ (stage' # stage /\ stage' # "DONE") => (retry_count' = 0)
        /\ (retry_count # 0 /\ retry_count' = 0) => (stage' # stage) ]_vars

\* C5: pending_candidates is empty right after every node execution that
\* changes stage, and is non-empty only while stage is SEARCH_RESULTS (or
\* the run has just been ended with stage DONE).
C5_PendingClearedOnStageChange ==
    [][ /\ (stage' # stage /\ stage' # "DONE") => (pending_candidates' = <<>>)
        /\ (pending_candidates' # <<>>) => (stage' \in {"SEARCH_RESULTS", "DONE"}) ]_vars

(***************************************************************************)
(* The history buffers on their own: any sequence of push_url and          *)
(* push_hash calls, with a record of everything that was pushed.           *)
(***************************************************************************)
HistUrls == {"home", "search"}

hist_push_url ==
    /\ Len(pushed_urls) < MaxPush
    /\ \E u \in HistUrls :
         /\ last_urls' = push_url(last_urls, u)
         /\ pushed_urls' = Append(pushed_urls, u)
    /\ UNCHANGED << node, stage, current_url, last_png_bytes, step_count, retry_count,
                    refine_level, last_screenshot_hashes, last_action,
                    pending_candidates, extracted_release, run_params, page_url,
                    browser_ops, extract_calls, vision_prompt, pushed_hashes, col_in,
                    col_out, ex_pc, ex_bbox, ex_clicked, ex_result, payload, call_out,
                    ex_before, assess_out >>

hist_push_hash ==
    /\ Len(pushed_hashes) < MaxPush
    /\ \E h \in Hashes :
         /\ last_screenshot_hashes' = push_hash(last_screenshot_hashes, h)
         /\ pushed_hashes' = Append(pushed_hashes, h)
    /\ UNCHANGED << node, stage, current_url, last_png_bytes, step_count, retry_count,
                    refine_level, last_urls, last_action,
                    pending_candidates, extracted_release, run_params, page_url,
                    browser_ops, extract_calls, vision_prompt, pushed_urls, col_in,
                    col_out, ex_pc, ex_bbox, ex_clicked, ex_result, payload, call_out,
                    ex_before, assess_out >>

HistNext == hist_push_url \/ hist_push_hash

SpecHistory == Init /\ [][HistNext]_vars

\* the last k entries of a sequence
LastN(q, k) == [i \in 1..k |-> q[Len(q) - k + i]]

\* C6: after any number of pushes each buffer holds at most 6 entries and
\* equals the most recent min(n, 6) pushed values in insertion order.
C6_HistoryIsLastSix ==
    /\ Len(last_urls) <= 6
    /\ Len(last_screenshot_hashes) <= 6
    /\ last_urls = LastN(pushed_urls, Min(Len(pushed_urls), 6))
    /\ last_screenshot_hashes = LastN(pushed_hashes, Min(Len(pushed_hashes), 6))

\* both buffers have evicted an entry that differs from the oldest one kept
C6_Witness ==
    /\ Len(pushed_urls) > 6
    /\ Len(pushed_hashes) > 6
    /\ pushed_urls[1] # last_urls[1]
    /\ pushed_hashes[1] # last_screenshot_hashes[1]

(***************************************************************************)
(* bbox_in_valid_column on its own: integer boxes on image sizes whose     *)
(* band limits the box centres reach exactly (100 x 100, and 75 x 50 where *)
(* the double product 75 * 0.82 is short of 61.5).                         *)
(***************************************************************************)
ColXs == {0, 5, 10, 22, 24, 60, 63, 64, 100}
ColYs == {0, 4, 5, 7, 13, 100}
ColSizes == {<<100, 100>>, <<75, 50>>, <<1280, 720>>}

ColInputs ==
    {[bbox |-> <<x1, y1, x2, y2>>, img_w |-> sz[1], img_h |-> sz[2]] :
        x1 \in ColXs, y1 \in ColYs, x2 \in ColXs, y2 \in ColYs, sz \in ColSizes}

ColInit ==
    /\ AgentInit
    /\ pushed_urls = <<>>
    /\ pushed_hashes = <<>>
    /\ col_in \in ColInputs
    /\ col_out = "unset"
    /\ ex_pc = "idle"
    /\ ex_bbox = <<>>
    /\ ex_clicked = <<>>
    /\ ex_result = "unset"
    /\ payload = NoPayload
    /\ call_out = NoCall
    /\ ex_before = "none"
    /\ assess_out = NoAssess

column_check ==
    /\ col_out = "unset"
    /\ col_out' = IF bbox_in_valid_column(col_in.bbox, col_in.img_w, col_in.img_h)
                  THEN "accept" ELSE "reject"
    /\ UNCHANGED << agent_vars, pushed_urls, pushed_hashes, col_in, ex_pc, ex_bbox,
                    ex_clicked, ex_result, payload, call_out, ex_before, assess_out >>

SpecColumn == ColInit /\ [][column_check]_vars

\* twice the centre of the checked box
ColCx2 == col_in.bbox[1] + col_in.bbox[3]
ColCy2 == col_in.bbox[2] + col_in.bbox[4]

\* the centre is in the top 10%, the left 16% or the right 18% of the image
ColInBand ==
    \/ 100 * ColCy2 < 2 * 10 * col_in.img_h
    \/ 100 * ColCx2 < 2 * 16 * col_in.img_w
    \/ 100 * ColCx2 > 2 * 82 * col_in.img_w

\* C7: an accepted bbox is at least 5 wide and 5 high and its centre has
\* 0.16 W <= cx <= 0.82 W and cy >= 0.10 H; a bbox whose centre is in the
\* header, left or right band is rejected.
C7_AcceptedInColumn ==
    /\ col_out = "accept" =>
         /\ col_in.bbox[3] - col_in.bbox[1] >= 5
         /\ col_in.bbox[4] - col_in.bbox[2] >= 5
         /\ ~ColInBand
    /\ (col_out # "unset" /\ ColInBand) => col_out = "reject"

\* an accepted box whose centre is exactly on the header limit and on the
\* left limit of a 100 x 100 image
C7_Witness ==
    /\ col_out = "accept"
    /\ col_in.img_w = 100
    /\ col_in.img_h = 100
    /\ ColCx2 = 32
    /\ ColCy2 = 20

(***************************************************************************)
(* _explore_click_points_multi on its own, one click_point per step.  The  *)
(* page answers every click with any of ExploreUrls.                       *)
(***************************************************************************)
ExploreUrls == {"search", "home", "repo"}

ExploreBoxes ==
    {CardBox, HeaderBox, LinkBox,
     <<600, 300, 620, 400>>,     \* 20 wide
     <<600, 300, 621, 400>>,     \* 21 wide
     <<600, 300, 700, 320>>,     \* 20 high
     <<600, 300, 700, 321>>,     \* 21 high
     <<100, 300, 240, 400>>,     \* 140 wide, 20 left of it right of the margin
     <<800, 300, 600, 400>>,     \* x2 < x1
     <<1270, 300, 1300, 400>>,   \* sticks out of the viewport
     <<0, 0, 0, 0>>,
     <<300, 100, 1200, 700>>}
      \cup {<<x1, y1, x2, y2>> : x1 \in {0, 220, 600}, y1 \in {0, 300},
                               x2 \in {241, 242, 630, 1280, 1400},
                               y2 \in {21, 22, 330, 720, 800}}

ExploreInit ==
    /\ \E u \in ExploreUrls : AgentOn(MaxSteps, MaxRetries, u)
    /\ pushed_urls = <<>>
    /\ pushed_hashes = <<>>
    /\ col_in = NoCol
    /\ col_out = "unset"
    /\ ex_pc = "start"
    /\ ex_bbox \in ExploreBoxes
    /\ ex_clicked = <<>>
    /\ ex_result = "unset"
    /\ payload = NoPayload
    /\ call_out = NoCall
    /\ ex_before = page_url
    /\ assess_out = NoAssess

ex_region == _clamp_bbox_to_viewport(ex_bbox, ViewportW, ViewportH)

explore_start ==
    /\ ex_pc = "start"
    /\ IF region_too_small(ex_region)
       THEN ex_pc' = "done" /\ ex_result' = "false"
       ELSE ex_pc' = "click" /\ ex_result' = ex_result
    /\ UNCHANGED << agent_vars, pushed_urls, pushed_hashes, col_in, col_out, ex_bbox,
                    ex_clicked, payload, call_out, ex_before, assess_out >>

explore_click ==
    /\ ex_pc = "click"
    /\ LET points == explore_points(ex_region)
           i == Len(ex_clicked) + 1
       IN  /\ ex_clicked' = Append(ex_clicked, points[i])
           /\ \E after \in ExploreUrls :
                /\ page_url' = after
                /\ IF after # page_url /\ url_has_target_repo(after)
                   THEN ex_pc' = "done" /\ ex_result' = "true"
                   ELSE IF i = Len(points)
                   THEN ex_pc' = "done" /\ ex_result' = "false"
                   ELSE ex_pc' = "click" /\ ex_result' = ex_result
    /\ UNCHANGED << node, stage, current_url, last_png_bytes, step_count, retry_count,
                    refine_level, last_urls, last_screenshot_hashes, last_action,
                    pending_candidates, extracted_release, run_params, browser_ops,
                    extract_calls, vision_prompt, pushed_urls, pushed_hashes, col_in,
                    col_out, ex_bbox, payload, call_out, ex_before, assess_out >>

ExploreNext == explore_start \/ explore_click

SpecExplore == ExploreInit /\ [][ExploreNext]_vars

\* what ACT assumes of an exploration agrees with the exploration itself
ExploreAgreesWithAct ==
    ex_pc = "done" =>
        [success |-> (ex_result = "true"), clicked |-> (ex_clicked # <<>>),
         url |-> page_url] \in explore_outcomes(ex_bbox, ex_before, ExploreUrls)

\* the region handed to the exploration is at most 20 wide or 20 high
ExNarrowRegion ==
    /\ ex_bbox # <<>>
    /\ (ex_bbox[3] - ex_bbox[1] <= 20 \/ ex_bbox[4] - ex_bbox[2] <= 20)

\* C8: grid exploration of a region at most 20 px wide or high returns
\* failure without a single click_point call.
C8_NarrowRegionNoClick ==
    ExNarrowRegion => (ex_clicked = <<>> /\ (ex_pc = "done" => ex_result = "false"))

\* the exploration of a region exactly 20 wide has returned
C8_Witness ==
    /\ ex_bbox = <<600, 300, 620, 400>>
    /\ ex_pc = "done"
    /\ ex_result = "false"

\* dict.get(key): None when the key is absent
Get(x) == IF x = Absent THEN Null ELSE x
\* isinstance(x, list)
IsList(x) == x.k \in {"ints", "lists", "list"}

\* str.lower on the type names of the modelled payloads
Lower(x) ==
    IF x = "BBOX" THEN "bbox"
    ELSE IF x = "Box" THEN "box"
    ELSE IF x = "Click_Type" THEN "click_type"
    ELSE x

AllowedKeys == {"Enter", "Tab", "Escape", "ArrowDown", "ArrowUp", "ArrowLeft",
                "ArrowRight", "PageDown", "PageUp", "Home", "End", "Backspace",
                "Delete"}

(***************************************************************************)
(* VisionClient._normalize_action_payload, rule by rule.                   *)
(***************************************************************************)
\* both alias tests read the type the payload came with
alias_type(p) ==
    IF p.type.k = "str" /\ Lower(p.type.v) \in
           {"bbox", "box", "click_type", "click-and-type", "click_and_type"}
    THEN [p EXCEPT !.type = Str("click")]
    ELSE p

promote_coords(p) ==
    IF p.coords # Absent /\ p.bbox = Absent
    THEN [p EXCEPT !.bbox = Get(p.coords)]
    ELSE p

\* variant: the inner lists are copied to candidates and bbox is left alone
bbox_lists_to_candidates_keep(p) ==
    IF p.bbox.k = "lists" /\ p.bbox.v # <<>>
    THEN [p EXCEPT !.candidates =
                     List([i \in 1..Len(p.bbox.v) |-> Cand(Ints(p.bbox.v[i]), Absent)])]
    ELSE p

bbox_lists_to_candidates(p) ==
    IF p.bbox.k = "lists" /\ p.bbox.v # <<>>
    THEN [p EXCEPT !.candidates =
                     List([i \in 1..Len(p.bbox.v) |-> Cand(Ints(p.bbox.v[i]), Absent)]),
                   !.bbox = Null]
    ELSE p

\* one item of the candidates list: the sequence of what is appended to norm
normalize_candidate(c) ==
    IF c.k = "dict"
    THEN LET c1 == IF c.v.coords # Absent /\ c.v.bbox = Absent
                   THEN Cand(Get(c.v.coords), c.v.coords) ELSE c
             \* c = {**c, **c["bbox"]}: the keys of the inner object win
             c2 == IF c1.v.bbox.k = "dict"
                   THEN Cand(IF c1.v.bbox.v.bbox # Absent
                             THEN c1.v.bbox.v.bbox ELSE c1.v.bbox,
                             IF c1.v.bbox.v.coords # Absent
                             THEN c1.v.bbox.v.coords ELSE c1.v.coords)
                   ELSE c1
         IN  IF c2.v.bbox # Absent /\ IsList(c2.v.bbox) THEN <<c2>> ELSE <<>>
    ELSE IF c.k = "ints" /\ Len(c.v) = 4 THEN <<Cand(c, Absent)>>
    ELSE IF c.k \in {"lists", "list"} /\ Len(c.v) = 4 THEN <<Cand(c, Absent)>>
    ELSE <<>>

\* the items of a list value, each as a JSON value
Items(x) ==
    IF x.k = "list" THEN x.v
    ELSE IF x.k = "lists" THEN [i \in 1..Len(x.v) |-> Ints(x.v[i])]
    ELSE [i \in 1..Len(x.v) |-> IntV(x.v[i])]

RECURSIVE normalize_items(_)
normalize_items(items) ==
    IF items = <<>> THEN <<>>
    ELSE normalize_candidate(Head(items)) \o normalize_items(Tail(items))

normalize_candidates(p) ==
    IF IsList(Get(p.candidates))
    THEN [p EXCEPT !.candidates = List(normalize_items(Items(p.candidates)))]
    ELSE p

\* variant: an expect that is already an object is wrapped as well
coerce_expect_wrap(p) ==
    IF p.expect.k \in {"str", "dict"} THEN [p EXCEPT !.expect = Expect(p.expect)] ELSE p

coerce_expect(p) ==
    IF p.expect.k = "str" THEN [p EXCEPT !.expect = Expect(p.expect)] ELSE p

\* int(round(a)) for a float given in tenths: half rounds to even
RoundTenths(t) ==
    LET lo == IF t >= 0 THEN t \div 10 ELSE -((-t + 9) \div 10)
        r == t - 10 * lo
    IN  IF r < 5 THEN lo
        ELSE IF r > 5 THEN lo + 1
        ELSE IF lo % 2 = 0 THEN lo ELSE lo + 1

normalize_scroll(p) ==
    IF p.scroll = False THEN [p EXCEPT !.scroll = Null]
    ELSE IF p.scroll.k = "dict" /\ p.scroll.v.amount.k = "float"
    THEN LET a == p.scroll.v.amount.v
         IN  IF 0 < a /\ a < 10
             THEN [p EXCEPT !.scroll = Scroll(p.scroll.v.direction, IntV(DefaultScroll))]
             ELSE [p EXCEPT !.scroll = Scroll(p.scroll.v.direction, IntV(RoundTenths(a)))]
    ELSE p

filter_key(p) ==
    IF p.key.k = "str" /\ p.key.v \notin AllowedKeys
    THEN [p EXCEPT !.key = Null]
    ELSE p

_normalize_action_payload(p) ==
    filter_key(normalize_scroll(coerce_expect(normalize_candidates(
        bbox_lists_to_candidates(promote_coords(alias_type(p)))))))

(***************************************************************************)
(* Action.model_validate on a normalized payload: type and reason are      *)
(* required strings, bbox an optional list of integers, candidates an      *)
(* optional list of objects with a list-of-integers bbox, scroll an        *)
(* optional object with a string direction and an integer amount; keys the *)
(* schema does not name (coords) are ignored.                              *)
(***************************************************************************)
Optional(x) == x \in {Absent, Null}

valid_candidate(c) == c.k = "dict" /\ c.v.bbox.k = "ints"

valid_action(p) ==
    /\ p.type.k = "str"
    /\ p.reason.k = "str"
    /\ (Optional(p.bbox) \/ p.bbox.k = "ints")
    /\ \/ Optional(p.candidates)
       \/ /\ p.candidates.k = "list"
          /\ \A i \in 1..Len(p.candidates.v) : valid_candidate(p.candidates.v[i])
    /\ \/ Optional(p.scroll)
       \/ /\ p.scroll.k = "dict"
          /\ p.scroll.v.direction.k = "str"
          /\ p.scroll.v.amount.k = "int"
    /\ (Optional(p.expect) \/ p.expect.k = "dict")
    /\ (Optional(p.key) \/ p.key.k = "str")

\* the Action built from a valid payload
to_action(p) ==
    MkAction(p.type.v, p.reason.v,
             IF Optional(p.bbox) THEN <<>> ELSE p.bbox.v,
             IF Optional(p.candidates) THEN <<>>
             ELSE [i \in 1..Len(p.candidates.v) |-> p.candidates.v[i].v.bbox.v],
             IF Optional(p.scroll) THEN "none" ELSE p.scroll.v.direction.v)

\* VisionClient._call_action after _call_json returned the payload
_call_action(p) ==
    LET n == _normalize_action_payload(p)
    IN  IF valid_action(n)
        THEN [status |-> "ok", payload |-> n, action |-> to_action(n)]
        ELSE [status |-> "error", payload |-> n, action |-> NoAction]

(***************************************************************************)
(* _call_action on its own, on the payloads below.                         *)
(***************************************************************************)
BoxA == <<10, 10, 50, 30>>
BoxB == <<3, 3, 4, 4>>

\* the non-empty sequences of at most n boxes
RECURSIVE BoxSeqs(_)
BoxSeqs(n) ==
    IF n = 0 THEN {<<>>}
    ELSE BoxSeqs(n - 1) \cup
           {Append(q, b) : q \in {r \in BoxSeqs(n - 1) : Len(r) = n - 1},
                           b \in {BoxA, BoxB}}

PayloadTypes == {Absent, Str("bbox"), Str("Box"), Str("click"), Str("click_type")}
PayloadReasons == {Absent, Str("because")}
PayloadCoords == {Absent, Ints(BoxA), Lists(<<BoxA, BoxB>>)}
PayloadBBoxes ==
    {Absent, Null, Ints(BoxB)} \cup {Lists(q) : q \in BoxSeqs(MaxCands) \ {<<>>}}
PayloadCandidates ==
    {Absent,
     List(<<Cand(Ints(BoxA), Absent)>>),
     List(<<Ints(BoxB), Cand(Absent, Ints(BoxA))>>),
     List(<<Cand(Cand(Ints(BoxA), Absent), Absent), IntV(7)>>)}
PayloadExpects == {Absent, Str("Releases")}
PayloadScrolls ==
    {Absent, False, Scroll(Str("down"), FloatV(5)), Scroll(Str("down"), FloatV(25))}
PayloadKeys == {Absent, Str("Enter"), Str("Meta+A")}

Payloads ==
    {MkPayload(t, r, c, b, cs, e, sc, ky) :
        t \in PayloadTypes, r \in PayloadReasons, c \in PayloadCoords,
        b \in PayloadBBoxes, cs \in PayloadCandidates, e \in PayloadExpects,
        sc \in PayloadScrolls, ky \in PayloadKeys}

CallInit ==
    /\ AgentInit
    /\ pushed_urls = <<>>
    /\ pushed_hashes = <<>>
    /\ col_in = NoCol
    /\ col_out = "unset"
    /\ ex_pc = "idle"
    /\ ex_bbox = <<>>
    /\ ex_clicked = <<>>
    /\ ex_result = "unset"
    /\ payload \in Payloads
    /\ call_out = NoCall
    /\ ex_before = "none"
    /\ assess_out = NoAssess

call_action ==
    /\ call_out.status = "unset"
    /\ call_out' = _call_action(payload)
    /\ UNCHANGED << agent_vars, pushed_urls, pushed_hashes, col_in, col_out, ex_pc,
                    ex_bbox, ex_clicked, ex_result, payload, ex_before, assess_out >>

SpecCall == CallInit /\ [][call_action]_vars

\* the payload has nothing but a type "bbox" / "box" and four-integer coords
OnlyTypeAndCoords ==
    /\ payload.type.k = "str"
    /\ Lower(payload.type.v) \in {"bbox", "box"}
    /\ payload.coords.k = "ints"
    /\ Len(payload.coords.v) = 4
    /\ payload.reason = Absent
    /\ payload.bbox = Absent
    /\ payload.candidates = Absent
    /\ payload.expect = Absent
    /\ payload.scroll = Absent
    /\ payload.key = Absent

\* C9: for a payload of only type "bbox" or "box" and four-integer coords
\* c, the action call produces an Action with type "click" and bbox c
\* rather than failing.
C9_BBoxAliasYieldsClick ==
    (OnlyTypeAndCoords /\ call_out.status # "unset") =>
        /\ call_out.status = "ok"
        /\ call_out.action.type = "click"
        /\ call_out.action.bbox = payload.coords.v

\* the payload's bbox is a non-empty list of four-number lists
BBoxIsListOfBoxes ==
    /\ payload.bbox.k = "lists"
    /\ payload.bbox.v # <<>>
    /\ \A i \in 1..Len(payload.bbox.v) : Len(payload.bbox.v[i]) = 4

\* C10: for a payload whose bbox is a non-empty list of four-number lists,
\* normalization sets bbox to null and makes candidates exactly one
\* candidate per inner list, in order, each with that list as its bbox.
C10_BBoxListBecomesCandidates ==
    (BBoxIsListOfBoxes /\ call_out.status # "unset") =>
        /\ call_out.payload.bbox = Null
        /\ call_out.payload.candidates.k = "list"
        /\ Len(call_out.payload.candidates.v) = Len(payload.bbox.v)
        /\ \A i \in 1..Len(payload.bbox.v) :
             /\ call_out.payload.candidates.v[i].k = "dict"
             /\ call_out.payload.candidates.v[i].v.bbox = Ints(payload.bbox.v[i])

\* normalization ran on a bbox of two different boxes, with candidates of
\* its own in the payload
C10_Witness ==
    /\ call_out.status # "unset"
    /\ payload.bbox = Lists(<<BoxA, BoxB>>)
    /\ payload.candidates # Absent
    /\ Len(call_out.payload.candidates.v) = 2

(***************************************************************************)
(* A longer run: the graph from its initial state with --max-steps         *)
(* LongSteps and --max-retries LongRetries, on one rendering of three      *)
(* pages and three answers of the vision model.                            *)
(***************************************************************************)
LongSteps == 6
LongRetries == 3

LongHashes == {"h1", "h2"}
LongUrls == {"home", "search", "releases"}
LongActions ==
    {MkAction("click", "vlm", CardBox, <<>>, "none"),
     MkAction("click", "vlm", <<>>, <<HeaderBox>>, "none"),
     MkAction("click", "vlm", <<>>, <<HeaderBox, CardBox>>, "none"),
     MkAction("scroll", "vlm", <<>>, <<>>, "down")}

LongInit == AgentStart(LongSteps, LongRetries) /\ HarnessIdle

LongNext ==
    \/ observe(LongHashes)
    \/ decide(LongActions)
    \/ act(LongUrls)
    \/ validate_node
    \/ extract_node

LongSpec == LongInit /\ [][LongNext]_vars

\* the three recovery actions of Validator.assess
RecoveryActions == {ScrollDown, ScrollUp, GoBack}

\* the recovery action the rotation scroll-down, scroll-up, back has after
\* action a: scroll-down when a is no recovery action (stuck is flagged for
\* the first time) and again after back
rotation_after(a) ==
    IF a = ScrollDown THEN ScrollUp
    ELSE IF a = ScrollUp THEN GoBack
    ELSE ScrollDown

\* C11: the recovery actions successive VALIDATE steps substitute come in
\* the order scroll-down, scroll-up, back: the first one substituted is
\* scroll-down whatever retry_count is, and each later one follows the one
\* ACT has just executed.
C11_RecoveryRotation ==
    [][ (node = "validate" /\ node' = "act" /\ last_action' \in RecoveryActions)
            => last_action' = rotation_after(last_action) ]_vars

\* position of a stage in the order HOME < SEARCH_RESULTS < REPO < RELEASES
\* < {EXTRACTED, DONE}
stage_rank(st) ==
    IF st = "HOME" THEN 0
    ELSE IF st = "SEARCH_RESULTS" THEN 1
    ELSE IF st = "REPO" THEN 2
    ELSE IF st = "RELEASES" THEN 3
    ELSE 4

\* C12: stage never moves to an earlier value of the order HOME <
\* SEARCH_RESULTS < REPO < RELEASES < {EXTRACTED, DONE}, and DECIDE moves
\* stage to SEARCH_RESULTS only from HOME.
C12_StageMonotonic ==
    [][ /\ stage_rank(stage') >= stage_rank(stage)
        /\ (node = "decide" /\ stage' # stage) => stage = "HOME" ]_vars

\* the stuck condition as the VALIDATE about to run will compute it
StuckAtValidate ==
    is_stuck(push_hash(last_screenshot_hashes, last_png_bytes),
             IF current_url # "none" THEN push_url(last_urls, current_url) ELSE last_urls,
             last_png_bytes, current_url)

\* the page qualifies for extraction
QualifiesForExtract ==
    /\ current_url # "none"
    /\ url_has_releases(current_url)
    /\ stage \in {"REPO", "SEARCH_RESULTS"}

\* C13: a validation at the step ceiling stops the run whatever else holds,
\* and below the ceiling a validation of a page that qualifies for
\* extraction while the stuck condition holds routes to EXTRACT and
\* substitutes no recovery action.
C13_ValidationPriority ==
    [][ node = "validate" =>
          /\ step_count >= max_steps => (node' = "END" /\ stage' = "DONE")
          /\ (step_count < max_steps /\ QualifiesForExtract /\ StuckAtValidate)
                => (node' = "extract" /\ last_action' = last_action) ]_vars

\* C14: the node that runs after a node is the one the transition table
\* gives: DECIDE after OBSERVE, ACT after DECIDE, VALIDATE after ACT, one of
\* OBSERVE, ACT, EXTRACT, END after VALIDATE, and END after EXTRACT.  A node
\* that raises has no successor: the run is aborted.
C14_TransitionTable ==
    [][ node' # "error" =>
          /\ node = "observe" => node' = "decide"
          /\ node = "decide" => node' = "act"
          /\ node = "act" => node' = "validate"
          /\ node = "validate" => node' \in {"observe", "act", "extract", "END"}
          /\ node = "extract" => node' = "END" ]_vars

\* C15: extracted_release is set exactly when stage is EXTRACTED, a run
\* ended with stage DONE (by a step or retry ceiling) has it unset, and
\* extractor.extract is called at most once in a run.
C15_ReleaseIffExtracted ==
    /\ (extracted_release # "none") <=> (stage = "EXTRACTED")
    /\ (Ended /\ stage = "DONE") => extracted_release = "none"
    /\ extract_calls <= 1

\* a run ended by its one successful extraction
C15_Witness ==
    /\ node = "END"
    /\ stage = "EXTRACTED"
    /\ extracted_release = "release"
    /\ extract_calls = 1

\* C16: a failed vision call in DECIDE does not abort the run: DECIDE never
\* ends in an exception.
C16_VisionFailureNotFatal ==
    [][ node = "decide" => node' # "error" ]_vars

\* C17: normalization is idempotent: normalizing the normalized payload
\* again gives the same payload.
C17_NormalizeIdempotent ==
    call_out.status # "unset" =>
        _normalize_action_payload(call_out.payload) = call_out.payload

\* normalization ran on a payload on which the alias, coords, bbox-list,
\* expect, scroll and key rules all rewrite something
C17_Witness ==
    /\ call_out.status # "unset"
    /\ payload.type = Str("bbox")
    /\ payload.coords = Lists(<<BoxA, BoxB>>)
    /\ payload.bbox = Absent
    /\ payload.expect = Str("Releases")
    /\ payload.scroll = Scroll(Str("down"), FloatV(25))
    /\ payload.key = Str("Meta+A")
    /\ call_out.payload.type = Str("click")
    /\ call_out.payload.bbox = Null
    /\ Len(call_out.payload.candidates.v) = 2
    /\ call_out.payload.scroll = Scroll(Str("down"), IntV(2))
    /\ call_out.payload.key = Null

\* C18: a VALIDATE that runs while the current URL is a login page routes
\* to OBSERVE and leaves stage, retry_count, refine_level,
\* pending_candidates and last_action as they were, whatever the validator
\* proposed.
C18_LoginLoopsToObserve ==
    [][ (node = "validate" /\ current_url = "login") =>
          /\ node' = "observe"
          /\ UNCHANGED << stage, retry_count, refine_level, pending_candidates,
                          last_action >> ]_vars

\* VALIDATE has just run on the login page at the step ceiling, where the
\* validator proposes to stop, and has routed to OBSERVE
C18_Witness ==
    /\ node = "observe"
    /\ current_url = "login"
    /\ last_urls # <<>>
    /\ last_urls[Len(last_urls)] = "login"
    /\ step_count >= max_steps

\* C19: in stage SEARCH_RESULTS, with a screenshot stored, an ACT that runs
\* a click or click_candidates action carrying a primary bbox or candidates
\* sends a click to the browser (click_bbox, or the click_point calls of
\* the grid exploration) only for a bbox that passes bbox_in_valid_column.
C19_ClicksPassFilter ==
    [][ ( /\ node = "act"
          /\ stage = "SEARCH_RESULTS"
          /\ last_png_bytes # "none"
          /\ last_action.type \in {"click", "click_candidates"}
          /\ act_candidates(last_action) # <<>>
          /\ browser_ops'.op \in {"click_bbox", "click_point"} )
        => bbox_in_valid_column(browser_ops'.bbox, ViewportW, ViewportH) ]_vars

\* a sequence without its k-th entry
RemoveAt(q, k) == SubSeq(q, 1, k - 1) \o SubSeq(q, k + 1, Len(q))

\* C20: when ACT runs the filter on a candidate list of which some entry
\* passes bbox_in_valid_column, the bbox it clicks is the first passing
\* entry and pending_candidates becomes the list without that one entry,
\* in the original order.
C20_FirstPassingChosen ==
    [][ ( /\ node = "act"
          /\ ~act_explores(stage, last_action)
          /\ act_filters(stage, last_action, last_png_bytes)
          /\ first_in_column(act_candidates(last_action)) # 0 )
        => LET cands == act_candidates(last_action)
               k == first_in_column(cands)
           IN  /\ browser_ops' = [op |-> "click_bbox", bbox |-> cands[k]]
               /\ \A i \in 1..(k - 1) :
                      ~bbox_in_valid_column(cands[i], ViewportW, ViewportH)
               /\ pending_candidates' = RemoveAt(cands, k) ]_vars

(***************************************************************************)
(* The vision call of decide_node.                                         *)
(***************************************************************************)
\* C21: DECIDE calls the vision model unless candidates are queued and the
\* stage it decides in (after the forced move to SEARCH_RESULTS) is
\* SEARCH_RESULTS.  Without a call the decided action is a click on the
\* bbox of the first queued candidate; with a call the prompt carries the
\* correction hint exactly when retry_count > 0.
C21_DecideVisionCall ==
    [][ node = "decide" =>
          IF pending_candidates # <<>> /\ stage' = "SEARCH_RESULTS"
          THEN /\ vision_prompt' = "none"
               /\ node' = "act"
               /\ last_action'.type = "click"
               /\ last_action'.bbox = pending_candidates[1]
          ELSE vision_prompt' = IF retry_count > 0 THEN "critique" ELSE "plain" ]_vars

\* DECIDE has called the vision model with the correction hint although
\* candidates are queued: the stage is not SEARCH_RESULTS
C21_Witness ==
    /\ node = "act"
    /\ last_action.reason = "vlm"
    /\ vision_prompt = "critique"
    /\ pending_candidates # <<>>
    /\ stage # "SEARCH_RESULTS"

\* C22: reusing a queued candidate is a dequeue: the DECIDE step that turns
\* the first queued candidate into the click action removes it from
\* pending_candidates.
C22_ReuseDequeues ==
    [][ (node = "decide" /\ node' = "act" /\ last_action'.reason = "pending_candidate")
            => pending_candidates' = Tail(pending_candidates) ]_vars

\* C23: grid exploration reports success exactly when the URL after some
\* sampled click contains the target repository path, it clicks no further
\* once such a URL has shown, and it reports failure only after the last
\* point of the last round (a region wide and high enough to be sampled).
C23_ExploreSuccessOnTargetUrl ==
    /\ (ex_clicked # <<>> /\ url_has_target_repo(page_url))
            => (ex_pc = "done" /\ ex_result = "true")
    /\ ex_result = "true" => (ex_clicked # <<>> /\ url_has_target_repo(page_url))
    /\ (ex_result = "false" /\ ~region_too_small(ex_region))
            => Len(ex_clicked) = Len(explore_points(ex_region))

(***************************************************************************)
(* Validator.assess on its own: the AgentState it is given is drawn from   *)
(* every history window of at most max_keep entries.                       *)
(***************************************************************************)
AssessUrls == {"home", "search"}

Windows(S) == UNION {[1..n -> S] : n \in 0..max_keep}

AssessInit ==
    /\ max_steps = MaxSteps
    /\ max_retries_per_stage = MaxRetries
    /\ extract_calls = 0
    /\ node = "validate"
    /\ stage = "HOME"
    /\ current_url \in AssessUrls \cup {"none"}
    /\ last_png_bytes \in Hashes
    /\ step_count \in {MaxSteps - 1, MaxSteps}
    /\ retry_count \in 0..MaxRetries
    /\ refine_level = 0
    /\ last_urls \in Windows(AssessUrls)
    /\ last_screenshot_hashes \in Windows(Hashes)
    /\ last_action = NoAction
    /\ pending_candidates = <<>>
    /\ extracted_release = "none"
    /\ page_url = "home"
    /\ browser_ops = NoOps
    /\ vision_prompt = "none"
    /\ HarnessIdle

\* assess(state, png_bytes): both histories are extended, then the result
\* is computed on them
assess_call ==
    /\ assess_out = NoAssess
    /\ LET hashes == push_hash(last_screenshot_hashes, last_png_bytes)
           urls == IF current_url # "none" THEN push_url(last_urls, current_url)
                   ELSE last_urls
       IN  /\ last_screenshot_hashes' = hashes
           /\ last_urls' = urls
           /\ assess_out' = assess(stage, current_url, step_count, retry_count,
                                   hashes, urls, last_png_bytes)
    /\ UNCHANGED << node, stage, current_url, last_png_bytes, step_count, retry_count,
                    refine_level, last_action, pending_candidates, extracted_release,
                    run_params, page_url, browser_ops, extract_calls, vision_prompt,
                    pushed_urls, pushed_hashes, col_in, col_out, ex_pc, ex_bbox,
                    ex_clicked, ex_result, payload, call_out, ex_before >>

SpecAssess == AssessInit /\ [][assess_call]_vars

\* C24: below the step ceiling assess flags stuck exactly when, in the
\* windows it has just extended (at most 6 entries each), the current hash
\* occurs at least 3 times and the current URL occurs at least 3 times;
\* without a current URL it never flags stuck.
C24_StuckIffRepeated ==
    (assess_out # NoAssess /\ step_count < max_steps) =>
        /\ Len(last_screenshot_hashes) <= 6
        /\ Len(last_urls) <= 6
        /\ (assess_out.recovery_action # NoAction)
              <=> /\ Count(last_screenshot_hashes, last_png_bytes) >= 3
                  /\ current_url # "none"
                  /\ Count(last_urls, current_url) >= 3

\* stuck is flagged on two full windows that hold the current hash and the
\* current URL three times each, the oldest entries being other ones
C24_Witness ==
    /\ assess_out # NoAssess
    /\ step_count < max_steps
    /\ assess_out.recovery_action # NoAction
    /\ Len(last_screenshot_hashes) = 6 /\ Len(last_urls) = 6
    /\ Count(last_screenshot_hashes, last_png_bytes) = 3
    /\ Count(last_urls, current_url) = 3
    /\ last_screenshot_hashes[1] # last_png_bytes
    /\ last_urls[1] # current_url

(***************************************************************************)
(* The recovery loop.  graph.invoke runs the next node as long as there is *)
(* one, hence the weak fairness of the step.                               *)
(***************************************************************************)
FairLongSpec == LongSpec /\ WF_vars(LongNext)

\* VALIDATE replaces the decision by a recovery action
RecoverySubstitution ==
    node = "validate" /\ node' = "act" /\ last_action' \in RecoveryActions

\* C25: every recovery substitution adds exactly 1 to retry_count and is
\* made only while the result is within the ceiling, a flagged stuck over
\* the ceiling ends the run with stage DONE, retry_count never drops while
\* a recovery action is the decision, successive recovery actions differ,
\* and once a recovery action is substituted the run ends with stage DONE.
C25_RecoveryBounded ==
    /\ [][ RecoverySubstitution =>
              /\ retry_count' = retry_count + 1
              /\ retry_count' <= max_retries_per_stage
              /\ last_action' # last_action ]_vars
    /\ [][ (node = "validate" /\ StuckAtValidate /\ ~url_has_login(current_url)
              /\ step_count < max_steps /\ retry_count + 1 > max_retries_per_stage)
            => (node' = "END" /\ stage' = "DONE") ]_vars
    /\ [][ (last_action \in RecoveryActions) => (retry_count' >= retry_count) ]_vars
    /\ (last_action \in RecoveryActions) ~> (node = "END" /\ stage = "DONE")

\* the third recovery action in a row has been substituted
C25_Witness ==
    /\ node = "act"
    /\ last_action = GoBack
    /\ retry_count >= 3
    /\ retry_count <= max_retries_per_stage

(***************************************************************************)
(* Runs around the search page: the pages are the search page, the login   *)
(* page and the releases page, with both screenshot hashes.                *)
(***************************************************************************)
SearchSteps == 5
SearchRetries == 2

SearchUrls == {"search", "login", "releases"}

SearchInit == AgentStart(SearchSteps, SearchRetries) /\ HarnessIdle

SearchNext ==
    \/ observe(Hashes)
    \/ decide(LongActions)
    \/ act(SearchUrls)
    \/ validate_node
    \/ extract_node

SearchSpec == SearchInit /\ [][SearchNext]_vars

\* a validation of a click in SEARCH_RESULTS that left the URL as it was,
\* with no stage transition, no stop and no recovery
FailedNavigation ==
    /\ node = "validate"
    /\ last_png_bytes # "none"
    /\ stage = "SEARCH_RESULTS"
    /\ last_action.type = "click"
    /\ Len(UrlsAtValidate) >= 2
    /\ UrlsAtValidate[Len(UrlsAtValidate)] = UrlsAtValidate[Len(UrlsAtValidate) - 1]
    /\ (current_url = "none" \/ url_new_stage(stage, current_url) = "none")
    /\ step_count < max_steps
    /\ ~StuckAtValidate

\* what the claim says of such a validation
FailedNavigationEffect ==
    IF pending_candidates # <<>>
    THEN /\ pending_candidates' = Tail(pending_candidates)
         /\ last_action'.type = "click"
         /\ last_action'.bbox = Head(pending_candidates)
         /\ node' = "act"
    ELSE /\ refine_level' = Min(refine_level + 1, 2)
         /\ node' = "observe"

\* C26 as stated: every such validation dequeues the head of
\* pending_candidates into the next click for ACT or, the queue being
\* empty, sets refine_level to min(refine_level + 1, 2) and goes to OBSERVE;
\* refine_level stays within 0..2 and the step that raises it to 2 does not
\* end the run.
C26_FailedNavigation ==
    /\ [][ FailedNavigation => FailedNavigationEffect ]_vars
    /\ [](refine_level \in 0..2)
    /\ [][ (refine_level < 2 /\ refine_level' = 2) => node' = "observe" ]_vars

\* C26 amended: the same, for validations of a page that is not a login
\* page (on a login page VALIDATE goes back to OBSERVE and does neither).
C26_FailedNavigationOffLogin ==
    /\ [][ (FailedNavigation /\ ~url_has_login(current_url))
              => FailedNavigationEffect ]_vars
    /\ [](refine_level \in 0..2)
    /\ [][ (refine_level < 2 /\ refine_level' = 2) => node' = "observe" ]_vars

\* the branch has raised refine_level to its cap and the loop is back at
\* OBSERVE
C26_Witness ==
    /\ node = "observe"
    /\ stage = "SEARCH_RESULTS"
    /\ last_action.type = "click"
    /\ refine_level = 2

(***************************************************************************)
(* The rejection branch of act_node.                                       *)
(***************************************************************************)
\* ACT consults the filter and no candidate is in the valid column
FilterRejectsAll ==
    /\ node = "act"
    /\ ~act_explores(stage, last_action)
    /\ act_filters(stage, last_action, last_png_bytes)
    /\ \A i \in 1..Len(act_candidates(last_action)) :
          ~bbox_in_valid_column(act_candidates(last_action)[i], ViewportW, ViewportH)

\* C27: when the filter rejects every candidate of a click in
\* SEARCH_RESULTS, ACT sends nothing to the browser, adds exactly 1 to
\* retry_count, leaves step_count and pending_candidates unchanged, and ends
\* the run with stage DONE if retry_count then exceeds
\* max_retries_per_stage, otherwise goes on to VALIDATE.
C27_RejectionFrame ==
    [][ FilterRejectsAll =>
          /\ browser_ops' = NoOps
          /\ page_url' = page_url
          /\ retry_count' = retry_count + 1
          /\ step_count' = step_count
          /\ pending_candidates' = pending_candidates
          /\ IF retry_count' > max_retries_per_stage
             THEN node' \in {"END", "error"} /\ stage' = "DONE"
             ELSE node' = "validate" /\ stage' = stage ]_vars

\* a rejection over the ceiling has ended the run while steps are left
C27_Witness ==
    /\ node \in {"END", "error"}
    /\ stage = "DONE"
    /\ browser_ops = NoOps
    /\ retry_count = max_retries_per_stage + 1
    /\ last_action.type = "click"
    /\ last_action.bbox = <<>>
    /\ last_action.candidates # <<>>
    /\ step_count < max_steps

(***************************************************************************)
(* Where grid exploration clicks.                                          *)
(***************************************************************************)
\* point p lies in the box r
InBox(p, r) == r[1] <= p[1] /\ p[1] <= r[3] /\ r[2] <= p[2] /\ p[2] <= r[4]

\* point p lies in the top-left part of r that is pct percent wide and high
InTopLeft(p, r, pct) ==
    /\ r[1] <= p[1] /\ 100 * (p[1] - r[1]) <= pct * (r[3] - r[1])
    /\ r[2] <= p[2] /\ 100 * (p[2] - r[2]) <= pct * (r[4] - r[2])

\* C28: every point grid exploration clicks lies in the viewport-clamped
\* region and has x >= 220; one call clicks at most 26 points; the points
\* of round B (clicks 7..16) lie in the top-left 70% x 70% of the region
\* and those of round C (clicks 17..26) in the top-left 70% x 70% of that,
\* the top-left 49% x 49% of the region.
C28_ClicksInsideRegion ==
    /\ Len(ex_clicked) <= 26
    /\ \A i \in 1..Len(ex_clicked) :
          /\ InBox(ex_clicked[i], ex_region)
          /\ ex_clicked[i][1] >= 220
          /\ i >= 7 => InTopLeft(ex_clicked[i], ex_region, 70)
          /\ i >= 17 => InTopLeft(ex_clicked[i], ex_region, 49)

\* all three rounds were clicked in a region cut at the left margin and at
\* the bottom of the viewport
C28_Witness ==
    /\ ex_pc = "done"
    /\ Len(ex_clicked) = 26
    /\ ex_bbox[1] < LeftMargin
    /\ ex_bbox[4] > ViewportH

\* the decision is a recovery action VALIDATE has substituted
InRecovery == last_action \in RecoveryActions

\* C29: once VALIDATE has substituted a recovery action the run stays on
\* the path VALIDATE -> ACT -> VALIDATE: the decision stays a recovery
\* action, OBSERVE and DECIDE are not run again, the stored URL is no login
\* page, every later validation finds the stuck condition, and the run can
\* only end with stage DONE and no extracted release.
C29_RecoveryNeverObserves ==
    /\ [][ InRecovery => InRecovery' ]_vars
    /\ [](InRecovery =>
            /\ node \in {"act", "validate", "END"}
            /\ current_url # "none" /\ ~url_has_login(current_url)
            /\ (node = "validate" => StuckAtValidate)
            /\ (node = "END" => (stage = "DONE" /\ extracted_release = "none")))

\* the recovery loop has been ended by the retry ceiling with steps left
C29_Witness ==
    /\ InRecovery
    /\ node = "END"
    /\ stage = "DONE"
    /\ retry_count = max_retries_per_stage + 1
    /\ step_count < max_steps

\* C30: only OBSERVE writes current_url and last_png_bytes, and every
\* VALIDATE that assesses appends that stored URL and that stored
\* screenshot's hash, and moves the stage by that URL: what the most recent
\* OBSERVE captured, before the action under validation.
C30_OnlyObserveWrites ==
    /\ [][ node # "observe" => UNCHANGED << current_url, last_png_bytes >> ]_vars
    /\ [][ (node = "validate" /\ last_png_bytes # "none") =>
              /\ last_screenshot_hashes' = push_hash(last_screenshot_hashes, last_png_bytes)
              /\ last_urls' = IF current_url # "none"
                              THEN push_url(last_urls, current_url) ELSE last_urls
              /\ (stage' \notin {stage, "DONE"}
                    => stage' = url_new_stage(stage, current_url)) ]_vars

\* VALIDATE has assessed the search page although the action opened the
\* releases page: the stage is still SEARCH_RESULTS
C30_Witness ==
    /\ node = "observe"
    /\ step_count > 0
    /\ last_urls # <<>>
    /\ last_urls[Len(last_urls)] = current_url
    /\ current_url = "search"
    /\ url_has_releases(page_url)
    /\ stage = "SEARCH_RESULTS"

(***************************************************************************)
(* Stage RELEASES and the hand-over to extract_node.                       *)
(***************************************************************************)
\* C31: a step moves stage to RELEASES only if it is a VALIDATE step that
\* routes to EXTRACT, so stage RELEASES is only ever held while EXTRACT is
\* next or has failed: OBSERVE, DECIDE, ACT and VALIDATE never run with
\* stage RELEASES, and EXTRACT only runs with stage RELEASES.
C31_ReleasesRoutesToExtract ==
    /\ [][ (stage # "RELEASES" /\ stage' = "RELEASES")
              => (node = "validate" /\ node' = "extract") ]_vars
    /\ [](stage = "RELEASES" => node \in {"extract", "error"})
    /\ [](node = "extract" => stage = "RELEASES")

\* VALIDATE has moved the stage from SEARCH_RESULTS straight to RELEASES and
\* handed over to EXTRACT
C31_Witness ==
    /\ node = "extract"
    /\ stage = "RELEASES"
    /\ url_has_releases(current_url)
    /\ last_action.type = "click"
    /\ last_action.candidates # <<>>

(***************************************************************************)
(* The stage a run ends with.                                              *)
(***************************************************************************)
\* C32: a run at END has stage DONE or EXTRACTED; stage DONE is only held
\* by a run that has ended (no node runs after it is set); and a run that
\* ended holding an extracted release ends with stage EXTRACTED.
C32_EndStages ==
    /\ node = "END" => stage \in {"DONE", "EXTRACTED"}
    /\ stage = "DONE" => node \in {"END", "error"}
    /\ (node = "END" /\ extracted_release # "none") => stage = "EXTRACTED"

\* VALIDATE has stopped a run at the step ceiling: stage DONE, routed to END,
\* nothing extracted
C32_Witness ==
    /\ node = "END"
    /\ stage = "DONE"
    /\ step_count >= max_steps
    /\ extracted_release = "none"
====
